---- MODULE Spec2Model ----
(***************************************************************************)
(* logseg: the cross-process logging funnel of src/logseg/log_setup.py.    *)
(*                                                                         *)
(* The originating process owns the root logger (handler list, router,    *)
(* bucket sub-loggers, files); producer threads log directly, child        *)
(* processes forward through the queue and the listener thread _lt        *)
(* replays what it dequeues.  The standard library pieces the code calls   *)
(* (Logger.callHandlers, Handler.handle and its lock, list iteration,     *)
(* Queue, QueueHandler) are modelled by what they do.                      *)
(***************************************************************************)
EXTENDS Integers, Sequences, FiniteSets, TLC

\* ---------------------------------------------------------------- bounds
MaxRecs == 3        \* records emitted in one behaviour of Spec, over all producers
MaxRouted == 2      \* the same for SpecRoute
MaxLifeRecs == 2    \* the same for SpecLife
MaxRaceRecs == 2    \* the same for SpecRace
MaxInit == 2        \* logger_init() calls in one behaviour (lifecycle runs)
MaxTerm == 2        \* terminate_logger() calls on one LoggerManager
MaxSegs == 3         \* segments a message is put together from
MaxNestRecs == 2    \* records logged in one behaviour of SpecNest
MaxChars == 4       \* characters of a text written to a redirected stream
MaxTzRecs == 2      \* records logged in one behaviour of SpecTz
MaxQueuesRecs == 2  \* records logged in one behaviour of SpecQueues
MaxBytes == 3       \* largest max_bytes of a sink
MaxBackups == 2     \* largest backup_count of a sink
MaxLineLen == 2     \* longest formatted line written to a sink
MaxWrites == 3      \* lines written to one sink
MaxApiCalls == 2    \* get_logger calls outside the forwarding branch (SpecApi)
MaxApiRecs == 2     \* records logged in one behaviour of SpecApi

\* ------------------------------------------------------------ vocabulary
Buckets == {"a", "b"}
NoTag == "none"
Tags == Buckets \cup {NoTag}
Main == <<"main", 0>>
Free == <<"free", 0>>
Threads == {<<"thread", 1>>, <<"thread", 2>>}
Children == {<<"child", 1>>, <<"child", 2>>}
Funnels == 1..MaxInit
Listener(q) == <<"lt", q>>
Listeners == {Listener(q) : q \in Funnels}
Dispatchers == Threads \cup Listeners

\* The name each producer passes to get_logger(name): producer 1 of each
\* kind uses an ordinary name, producer 2 a name that is also a bucket name.
LoggerOf(p) == IF p[2] = 1 THEN "app" ELSE "a"

\* The termination sentinel (None) in the shape of a queue item.
None == [id |-> 0, src |-> Free, name |-> "", tag |-> NoTag, msg |-> NoTag, bad |-> FALSE]

\* A LogRecord: tag is the bucket named by the message as emitted, msg the
\* bucket still named by record.msg (NoTag once the router has stripped it).
MkRecord(n, p, t, f) ==
    [id |-> n, src |-> p, name |-> LoggerOf(p), tag |-> t, msg |-> t, bad |-> f]

\* One formatted line of a log file.
Line(r, by) == [id |-> r.id, msg |-> r.msg, by |-> by]

\* A log file is kept as the bag of its lines (their order is not kept).
EmptyFile == [x \in {} |-> 0]
Write(f, ln, n) ==
    IF n = 0 THEN f
    ELSE [x \in DOMAIN f \cup {ln} |->
            (IF x \in DOMAIN f THEN f[x] ELSE 0) + (IF x = ln THEN n ELSE 0)]

\* What n attached sinks of one logger append to file f for one record.
Lines(f, r, n, by) == Write(f, Line(r, by), n)

\* How many lines of file f come from record id.
Count(f, id) ==
    LET ls == {x \in DOMAIN f : x.id = id}
        RECURSIVE Sum(_)
        Sum(S) == IF S = {} THEN 0
                  ELSE LET x == CHOOSE y \in S : TRUE IN f[x] + Sum(S \ {x})
    IN  Sum(ls)

VARIABLES
    nInit,          \* logger_init() calls completed; funnel k is the k-th
    globalQueue,    \* logseg.globals.logger_queue: 0 is None, else a funnel
    queues,         \* content of each Manager().Queue()
    listener,       \* each _lt thread: "unborn", "alive", "exited", "dead"
    disp,           \* where each thread of the originating process is in callHandlers
    rootHandlers,   \* logging.getLogger().handlers in the originating process
    stdout,         \* sys.stdout of the originating process: "real" or "redirect"
    lock,           \* owner of each router handler's lock (Handler.lock)
    sub,            \* the loggers named after buckets: attached sinks, propagate
    rootFile,       \* <log_dir>/logs.log
    bucketFile,     \* <log_dir>/<bucket>/logs.log
    child,          \* each child process: its root handlers, queue, sub-loggers
    main,           \* the thread that calls logger_init / terminate_logger
    emitted,        \* history: source and tag of every record created, by id
    put,            \* history: every item ever put on each queue, in order
    dispatched,     \* history: ids each listener finished handling, in order
    termCalls,      \* history: terminate_logger() calls made per manager
    termReturns,    \* history: terminate_logger() calls returned per manager
    late,           \* history: ids logged directly while or after terminate_logger() ran
    emitRun,        \* one run of CreateFileHandlerHandler.emit on a record with its text
    api,            \* history: the last get_logger call that took no forwarding branch
    levelRun,       \* one record of some severity from the logging call to the sinks
    writeRun,       \* one call of RedirectToLogger.write
    rotRun          \* one file sink, its log files and the records written through it

\* The funnel's state, and the state of the single-operation runs.
funnel == <<nInit, globalQueue, queues, listener, disp, rootHandlers, stdout, lock,
            sub, rootFile, bucketFile, child, main, emitted, put, dispatched,
            termCalls, termReturns, late>>
runs == <<emitRun, levelRun, writeRun, rotRun>>
aux == <<runs, api>>
besideEmit == <<funnel, api, levelRun, writeRun, rotRun>>
besideLevel == <<funnel, api, emitRun, writeRun, rotRun>>
besideWrite == <<funnel, api, emitRun, levelRun, rotRun>>
besideRot == <<funnel, api, emitRun, levelRun, writeRun>>
vars == <<funnel, aux>>

\* ------------------------------------------------------- the text of a record
\* A message is a sequence of characters; "L" stands for the literal LOGSEG.
\* The messages tried are the concatenations of at most MaxSegs segments.
Segments ==
    { <<"L", "(", "a", ")">>, <<"L", "(", "b", ")">>, <<"L", "(", ")">>,
      <<"x">>, <<"L">>, <<"(">>, <<")">> }

RECURSIVE TextsOf(_)
TextsOf(n) ==
    IF n = 0 THEN {<<>>}
    ELSE LET shorter == TextsOf(n - 1)
         IN  shorter \cup {t \o g : t \in shorter, g \in Segments}

Texts == TextsOf(MaxSegs)

\* segregate_regex, r'(LOGSEG\(.*?\))', tried at position i: the match ends
\* at the first ")" behind "LOGSEG(" (0: no match starts at i).
RECURSIVE FirstClose(_, _)
FirstClose(s, j) ==
    IF j > Len(s) THEN 0 ELSE IF s[j] = ")" THEN j ELSE FirstClose(s, j + 1)

TagAt(s, i) ==
    IF i + 1 <= Len(s) /\ s[i] = "L" /\ s[i + 1] = "(" THEN FirstClose(s, i + 2) ELSE 0

\* re.findall(segregate_regex, s): the matches from left to right, none
\* overlapping another, each as <<first, last>>.
RECURSIVE FindAll(_, _)
FindAll(s, i) ==
    IF i > Len(s) THEN <<>>
    ELSE IF TagAt(s, i) # 0 THEN <<<<i, TagAt(s, i)>>>> \o FindAll(s, TagAt(s, i) + 1)
    ELSE FindAll(s, i + 1)

\* re.sub(segregate_regex, '', s): s without any of those matches.
RECURSIVE Sub(_, _)
Sub(s, i) ==
    IF i > Len(s) THEN <<>>
    ELSE IF TagAt(s, i) # 0 THEN Sub(s, TagAt(s, i) + 1)
    ELSE <<s[i]>> \o Sub(s, i + 1)

\* re.findall(seg_name_regex, match)[0] with r'(?<=\()(.*)(?=\))': what stands
\* between the first "(" of the match and its last character, the only ")".
SegName(s, m) == SubSeq(s, m[1] + 2, m[2] - 1)

\* A variant that takes the bucket name from the last tag.
LastTag(ms) == ms[Len(ms)]

\* re.findall(segregate_regex, log_str)[0]: the first tag is the one read.
FirstTag(ms) == ms[1]

\* Python's None for segregate_folder_name.
NoName == <<"None">>

\* A variant in which only None is false.
TruthyUnlessNone(name) == name # NoName

\* "name if name else ...": '' and None are both false.
Truthy(name) == name # NoName /\ name # <<>>

\* CreateFileHandlerHandler._process_logseg.
ProcessLogseg(s) ==
    LET ms == FindAll(s, 1)
    IN  IF ms # <<>>
        THEN [final |-> Sub(s, 1), name |-> SegName(s, FirstTag(ms))]
        ELSE [final |-> s, name |-> NoName]

\* str(record.msg), which is what Formatter.format persists: a str as it is,
\* the bytes RedirectToLogger.write logs as their repr b'...'.
GetMessage(msg, isStr) == IF isStr THEN msg ELSE <<"b", "'">> \o msg \o <<"'">>

\* --------------------------------------------------------------- handlers
\* name is Handler.name: None unless set_name was called, which get_logger
\* does with the pid of the calling process.
Unnamed == <<"None", 0>>
FileH(k) == [kind |-> "file", id |-> k, stream |-> "none", name |-> Unnamed]
RouterH(k) == [kind |-> "router", id |-> k, stream |-> "none", name |-> Unnamed]
ConsoleH(k, s) == [kind |-> "console", id |-> k, stream |-> s, name |-> Unnamed]
QueueH(q, pid) == [kind |-> "queue", id |-> q, stream |-> "none", name |-> pid]

RemoveAt(s, i) == SubSeq(s, 1, i - 1) \o SubSeq(s, i + 1, Len(s))

\* "for handler in root.handlers: root.removeHandler(handler)" run to its
\* end: what is left of hs when the loop starts at position i.
RECURSIVE RemoveWhileIterating(_, _)
RemoveWhileIterating(hs, i) ==
    IF i > Len(hs) THEN hs ELSE RemoveWhileIterating(RemoveAt(hs, i), i + 1)

\* A variant that installs the router ahead of the root file sink.
ConfigureRouterFirst(hs, k, out) ==
    hs \o <<RouterH(k), FileH(k), ConsoleH(k, out)>>

\* _configure_logging_handlers: the root file sink is always created
\* (folder_name is None), then the router, then a console handler bound to
\* whatever sys.stdout is at that moment.
ConfigureLoggingHandlers(hs, k, out) ==
    hs \o <<FileH(k), RouterH(k), ConsoleH(k, out)>>

\* get_logger in a non-originating process pid with a queue: clean up the
\* root handlers, then add the queue handler unless one of that name (the
\* pid) is there.
GetLoggerRoot(hs, q, pid) ==
    LET cleaned == RemoveWhileIterating(hs, 1)
    IN  IF \E i \in 1..Len(cleaned) : cleaned[i].name = pid
        THEN cleaned
        ELSE Append(cleaned, QueueH(q, pid))

\* ------------------------------------------------------------------ queue
\* A variant of put that hands the newest item out first.
QueuePutFront(q, item) == <<item>> \o q

\* A variant of get that loses the item behind the one it returns.
QueueTailSkip(q) == IF Len(q) > 1 THEN Tail(Tail(q)) ELSE Tail(q)

\* Queue.put appends, Queue.get returns the oldest item and removes it.
QueuePut(q, item) == Append(q, item)
QueueHead(q) == Head(q)
QueueTail(q) == Tail(q)

\* A variant of join that does not wait for the thread.
ThreadJoinedNoWait(st) == TRUE

\* Thread.join() returns once the thread has ended, however it ended.
ThreadJoined(st) == st \in {"exited", "dead"}

\* A variant of acquire() that never waits.
LockFreeAlways(owner, d) == TRUE

\* Handler.acquire(): the handler's re-entrant lock.
LockFree(owner, d) == owner = Free \/ owner = d

\* ------------------------------------------------------------------- init
Idle == [pc |-> "idle", rec |-> None, idx |-> 0, b |-> NoTag]
FreshSub == [b \in Buckets |-> [sinks |-> 0, propagate |-> TRUE]]
NotStarted == [started |-> FALSE, root |-> <<>>, q |-> 0, sub |-> FreshSub, stuck |-> FALSE]

FunnelInit ==
    /\ nInit = 0
    /\ globalQueue = 0
    /\ queues = [q \in Funnels |-> <<>>]
    /\ listener = [q \in Funnels |-> "unborn"]
    /\ disp = [d \in Dispatchers |-> Idle]
    /\ rootHandlers = <<>>
    /\ stdout = "real"
    /\ lock = [q \in Funnels |-> Free]
    /\ sub = FreshSub
    /\ rootFile = EmptyFile
    /\ bucketFile = [b \in Buckets |-> EmptyFile]
    /\ child = [c \in Children |-> NotStarted]
    /\ main = [pc |-> "idle", m |-> 0, i |-> 0]
    /\ emitted = <<>>
    /\ put = [q \in Funnels |-> <<>>]
    /\ dispatched = [q \in Funnels |-> <<>>]
    /\ termCalls = [q \in Funnels |-> 0]
    /\ termReturns = [q \in Funnels |-> 0]
    /\ late = {}

\* No single-operation run is under way.
NoRun == [pc |-> "off"]
NoCall == [calls |-> 0]
AuxInit == emitRun = NoRun /\ api = NoCall /\ levelRun = NoRun /\ writeRun = NoRun /\ rotRun = NoRun

Init == FunnelInit /\ AuxInit

\* -------------------------------------------------------------- lifecycle
\* logger_init(): purge the log directory (pre_purge defaults to true), make
\* a new queue and store it in the global, add the three handlers, redirect
\* the standard streams, start a listener on the new queue.
LoggerInit(limit) ==
    /\ main.pc = "idle"
    /\ nInit < limit
    /\ nInit' = nInit + 1
    /\ rootFile' = EmptyFile
    /\ bucketFile' = [b \in Buckets |-> EmptyFile]
    /\ globalQueue' = nInit + 1
    /\ rootHandlers' = ConfigureLoggingHandlers(rootHandlers, nInit + 1, stdout)
    /\ stdout' = "redirect"
    /\ listener' = [listener EXCEPT ![nInit + 1] = "alive"]
    /\ UNCHANGED <<queues, disp, lock, sub, child, main, emitted, put,
                   dispatched, termCalls, termReturns, late>>

    /\ UNCHANGED aux
\* The timezone identifiers a configuration can hold, and those the zoneinfo
\* database knows: ZoneInfo(key) raises for any other key.
Timezones == {"UTC", "Europe/Paris", "Mars/Olympus", "../x"}
AvailableTimezones == {"UTC", "Europe/Paris"}
ZoneInfoFound(tz) == tz \in AvailableTimezones

\* logger_init() when _get_log_formatter raises: the directory is purged and
\* the new queue is stored in the global, then _configure_logging_handlers
\* raises ahead of its first addHandler; no handler is added, the streams
\* are not redirected, no listener is started and no manager is returned.
LoggerInitRaises(limit) ==
    /\ main.pc = "idle"
    /\ nInit < limit
    /\ nInit' = nInit + 1
    /\ rootFile' = EmptyFile
    /\ bucketFile' = [b \in Buckets |-> EmptyFile]
    /\ globalQueue' = nInit + 1
    /\ UNCHANGED <<rootHandlers, stdout, listener, queues, disp, lock, sub, child, main,
                   emitted, put, dispatched, termCalls, termReturns, late>>
    /\ UNCHANGED aux

\* logger_init(config_file) with the timezone identifier of the configuration.
LoggerInitTz(tz, limit) ==
    IF ZoneInfoFound(tz) THEN LoggerInit(limit) ELSE LoggerInitRaises(limit)

\* terminate_logger(), first half: put None on logseg.globals.logger_queue,
\* then block in self.logger_thread.join().
TerminatePut(m, limit) ==
    /\ main.pc = "idle"
    /\ m \in 1..nInit
    /\ termCalls[m] < limit
    /\ queues' = [queues EXCEPT ![globalQueue] = QueuePut(@, None)]
    /\ put' = [put EXCEPT ![globalQueue] = Append(@, None)]
    /\ termCalls' = [termCalls EXCEPT ![m] = @ + 1]
    /\ main' = [pc |-> "joining", m |-> m, i |-> 0]
    /\ late' = late \cup {disp[t].rec.id : t \in {u \in Threads : disp[u].pc # "idle"}}
    /\ UNCHANGED <<nInit, globalQueue, listener, disp, rootHandlers, stdout, lock,
                   sub, rootFile, bucketFile, child, emitted, dispatched, termReturns>>

    /\ UNCHANGED aux
\* terminate_logger(), second half: join returns and the handler loop starts.
TerminateJoin ==
    /\ main.pc = "joining"
    /\ ThreadJoined(listener[main.m])
    /\ main' = [main EXCEPT !.pc = "removing", !.i = 1]
    /\ UNCHANGED <<nInit, globalQueue, queues, listener, disp, rootHandlers, stdout, lock, sub,
                   rootFile, bucketFile, child, emitted, put, dispatched, termCalls,
                   termReturns, late>>

    /\ UNCHANGED aux
\* One pass of "for handler in root.handlers: handler.close();
\* root.removeHandler(handler)": the loop walks the list it is removing
\* from, so after removing the item at position i it goes on with position
\* i + 1 of the shortened list.  Past the end, logging.shutdown() flushes and
\* closes (a closed sink reopens on its next emit, so closing changes
\* nothing kept here) and terminate_logger() returns.
TerminateRemove ==
    /\ main.pc = "removing"
    /\ LET hs == IF main.i > Len(rootHandlers) THEN rootHandlers
                 ELSE RemoveAt(rootHandlers, main.i)
       IN  /\ rootHandlers' = hs
           /\ IF main.i + 1 > Len(hs)
              THEN /\ termReturns' = [termReturns EXCEPT ![main.m] = @ + 1]
                   /\ main' = [pc |-> "idle", m |-> 0, i |-> 0]
              ELSE /\ main' = [main EXCEPT !.i = @ + 1]
                   /\ UNCHANGED termReturns
    /\ UNCHANGED <<nInit, globalQueue, queues, listener, disp, stdout, lock, sub,
                   rootFile, bucketFile, child, emitted, put, dispatched, termCalls, late>>

    /\ UNCHANGED aux
\* --------------------------------------- dispatch in the originating process
IsListener(d) == d[1] = "lt"

\* A console handler built on the real stream prints to the terminal, which
\* the model does not keep: the walk over the handlers passes it in the
\* same step.  NextStop is the next position at which something happens.
RECURSIVE NextStop(_, _)
NextStop(hs, i) ==
    IF i <= Len(hs) /\ hs[i].kind = "console" /\ hs[i].stream = "real"
    THEN NextStop(hs, i + 1)
    ELSE i

\* callHandlers goes on with the root handler at position i or after it;
\* past the last one the logging call (or logger.handle in _lt) returns.
Proceed(d, r, i) ==
    LET j == NextStop(rootHandlers, i)
    IN  IF j > Len(rootHandlers)
        THEN /\ disp' = [disp EXCEPT ![d] = Idle]
             /\ dispatched' = IF IsListener(d)
                              THEN [dispatched EXCEPT ![d[2]] = Append(@, r.id)]
                              ELSE dispatched
        ELSE /\ disp' = [disp EXCEPT ![d] = [pc |-> "root", rec |-> r, idx |-> j, b |-> NoTag]]
             /\ UNCHANGED dispatched

\* Logger.handle -> callHandlers, first logger of the chain: the logger the
\* record names.  A logger named after a bucket carries that bucket's sinks;
\* once the router has set propagate = False on it the walk stops there.
BeginDispatch(d, r) ==
    LET atSub == r.name \in Buckets
        stop  == atSub /\ ~sub[r.name].propagate
    IN  /\ bucketFile' = IF atSub
                         THEN [bucketFile EXCEPT ![r.name] = Lines(@, r, sub[r.name].sinks, Main)]
                         ELSE bucketFile
        /\ IF stop
           THEN /\ disp' = [disp EXCEPT ![d] = Idle]
                /\ dispatched' = IF IsListener(d)
                                 THEN [dispatched EXCEPT ![d[2]] = Append(@, r.id)]
                                 ELSE dispatched
           ELSE Proceed(d, r, 1)

\* A thread of the originating process logs through its get_logger() logger.
ThreadLog(t, tag, f, limit) ==
    /\ nInit >= 1
    /\ disp[t].pc = "idle"
    /\ Len(emitted) < limit
    /\ emitted' = Append(emitted, [src |-> t, tag |-> tag])
    /\ BeginDispatch(t, MkRecord(Len(emitted) + 1, t, tag, f))
    /\ late' = IF \E m \in Funnels : termCalls[m] > 0
               THEN late \cup {Len(emitted) + 1} ELSE late
    /\ UNCHANGED <<nInit, globalQueue, queues, listener, rootHandlers, stdout, lock,
                   sub, rootFile, child, main, put, termCalls, termReturns>>

    /\ UNCHANGED aux
\* _lt: record = queue.get(); None ends the loop, anything else goes to
\* logging.getLogger(record.name).handle(record).
LtGet(q) ==
    /\ listener[q] = "alive"
    /\ disp[Listener(q)].pc = "idle"
    /\ queues[q] # <<>>
    /\ queues' = [queues EXCEPT ![q] = QueueTail(@)]
    /\ IF QueueHead(queues[q]) = None
       THEN /\ listener' = [listener EXCEPT ![q] = "exited"]
            /\ UNCHANGED <<disp, bucketFile, dispatched>>
       ELSE /\ BeginDispatch(Listener(q), QueueHead(queues[q]))
            /\ UNCHANGED listener
    /\ UNCHANGED <<nInit, globalQueue, rootHandlers, stdout, lock, sub, rootFile,
                   child, main, emitted, put, termCalls, termReturns, late>>

    /\ UNCHANGED aux
AtRoot(d) == disp[d].pc = "root" /\ disp[d].idx <= Len(rootHandlers)
Current(d) == rootHandlers[disp[d].idx]

\* The root file sink: format and append one line.
HandleFile(d) ==
    /\ AtRoot(d)
    /\ Current(d).kind = "file"
    /\ rootFile' = Write(rootFile, Line(disp[d].rec, Main), 1)
    /\ Proceed(d, disp[d].rec, disp[d].idx + 1)
    /\ UNCHANGED <<nInit, globalQueue, queues, listener, rootHandlers, stdout, lock, sub,
                   bucketFile, child, main, emitted, put, termCalls, termReturns, late>>

    /\ UNCHANGED aux
\* A console handler built on a RedirectToLogger: every write logs to the
\* root logger again, which reaches this handler again, and the call never
\* comes back.
HandleConsole(d) ==
    /\ AtRoot(d)
    /\ Current(d).kind = "console"
    /\ Current(d).stream = "redirect"
    /\ disp' = [disp EXCEPT ![d].pc = "stuck"]
    /\ UNCHANGED <<nInit, globalQueue, queues, listener, rootHandlers, stdout, lock, sub,
                   rootFile, bucketFile, child, main, emitted, put, dispatched,
                   termCalls, termReturns, late>>

    /\ UNCHANGED aux
\* CreateFileHandlerHandler.emit under Handler.handle's lock: strip the tag
\* from the record; without a tag emit is over, with one it goes on to
\* the bucket's logger.
RouterEmit(d) ==
    /\ AtRoot(d)
    /\ Current(d).kind = "router"
    /\ ~disp[d].rec.bad
    /\ LockFree(lock[Current(d).id], d)
    /\ IF disp[d].rec.msg = NoTag
       THEN /\ Proceed(d, disp[d].rec, disp[d].idx + 1)
            /\ UNCHANGED lock
       ELSE /\ disp' = [disp EXCEPT ![d].pc = "check", ![d].b = disp[d].rec.msg,
                                    ![d].rec.msg = NoTag]
            /\ lock' = [lock EXCEPT ![Current(d).id] = d]
            /\ UNCHANGED dispatched
    /\ UNCHANGED <<nInit, globalQueue, queues, listener, rootHandlers, stdout, sub,
                   rootFile, bucketFile, child, main, emitted, put,
                   termCalls, termReturns, late>>

    /\ UNCHANGED aux
\* emit, lines 176-178 and the test of _add_file_handler, line 212.
RouterCheck(d) ==
    /\ disp[d].pc = "check"
    /\ sub' = [sub EXCEPT ![disp[d].b].propagate = FALSE]
    /\ disp' = [disp EXCEPT ![d].pc = IF sub[disp[d].b].sinks = 0 THEN "create" ELSE "handle"]
    /\ UNCHANGED <<nInit, globalQueue, queues, listener, rootHandlers, stdout, lock,
                   rootFile, bucketFile, child, main, emitted, put, dispatched,
                   termCalls, termReturns, late>>

    /\ UNCHANGED aux
\* _add_file_handler, lines 213-231: make the directory, build the
\* RotatingFileHandler, add it to the bucket's logger.
RouterCreate(d) ==
    /\ disp[d].pc = "create"
    /\ sub' = [sub EXCEPT ![disp[d].b].sinks = @ + 1]
    /\ disp' = [disp EXCEPT ![d].pc = "handle"]
    /\ UNCHANGED <<nInit, globalQueue, queues, listener, rootHandlers, stdout, lock,
                   rootFile, bucketFile, child, main, emitted, put, dispatched,
                   termCalls, termReturns, late>>

    /\ UNCHANGED aux
\* emit, line 186: logger.handle(record) on the bucket's logger, then emit
\* returns and Handler.handle releases the lock.
RouterHandle(d) ==
    /\ disp[d].pc = "handle"
    /\ bucketFile' = [bucketFile EXCEPT ![disp[d].b] =
                        Lines(@, disp[d].rec, sub[disp[d].b].sinks, Main)]
    /\ lock' = [q \in Funnels |-> IF lock[q] = d THEN Free ELSE lock[q]]
    /\ Proceed(d, disp[d].rec, disp[d].idx + 1)
    /\ UNCHANGED <<nInit, globalQueue, queues, listener, rootHandlers, stdout, sub,
                   rootFile, child, main, emitted, put, termCalls, termReturns, late>>

    /\ UNCHANGED aux
\* emit, lines 187-188: a RecursionError raised while emit runs is raised
\* again.  Nothing up to the logging call catches it: a producer's call
\* raises, and _lt, which has no try, ends with the exception.
RouterRaise(d) ==
    /\ AtRoot(d)
    /\ Current(d).kind = "router"
    /\ disp[d].rec.bad
    /\ LockFree(lock[Current(d).id], d)
    /\ disp' = [disp EXCEPT ![d] = Idle]
    /\ listener' = IF IsListener(d) THEN [listener EXCEPT ![d[2]] = "dead"] ELSE listener
    /\ UNCHANGED <<nInit, globalQueue, queues, rootHandlers, stdout, lock, sub, rootFile,
                   bucketFile, child, main, emitted, put, dispatched, termCalls, termReturns, late>>

    /\ UNCHANGED aux
\* The handler list changed under a dispatcher (terminate_logger removed
\* handlers): its position is now past the end, or on a console handler.
DispatchDone(d) ==
    /\ disp[d].pc = "root"
    /\ NextStop(rootHandlers, disp[d].idx) # disp[d].idx \/ disp[d].idx > Len(rootHandlers)
    /\ Proceed(d, disp[d].rec, disp[d].idx)
    /\ UNCHANGED <<nInit, globalQueue, queues, listener, rootHandlers, stdout, lock, sub,
                   rootFile, bucketFile, child, main, emitted, put, termCalls, termReturns, late>>

    /\ UNCHANGED aux
\* ---------------------------------------------------------- child processes
\* A child process is single-threaded: one logging call runs its whole
\* handler chain before anything else happens in that process.  st carries
\* the record and everything the chain can change.
ChildHandle(c, h, st) ==
    CASE h.kind = "file" ->
            [st EXCEPT !.rootFile = Write(@, Line(st.rec, c), 1)]
      [] h.kind = "console" ->
            IF h.stream = "redirect" THEN [st EXCEPT !.stuck = TRUE] ELSE st
      [] h.kind = "router" ->
            IF st.rec.bad THEN [st EXCEPT !.raised = TRUE]
            ELSE IF st.rec.msg = NoTag THEN st
            ELSE LET b  == st.rec.msg
                     r  == [st.rec EXCEPT !.msg = NoTag]
                     n  == IF st.sub[b].sinks = 0 THEN 1 ELSE st.sub[b].sinks
                 IN  [st EXCEPT !.rec = r,
                                !.sub[b] = [sinks |-> n, propagate |-> FALSE],
                                !.bucketFile[b] = Lines(@, r, n, c)]
      [] h.kind = "queue" ->
            [st EXCEPT !.queues[h.id] = QueuePut(@, st.rec),
                       !.put[h.id] = Append(@, st.rec)]

RECURSIVE ChildRun(_, _, _, _)
ChildRun(c, hs, i, st) ==
    IF i > Len(hs) \/ st.stuck \/ st.raised THEN st
    ELSE ChildRun(c, hs, i + 1, ChildHandle(c, hs[i], st))

\* callHandlers in the child: the named logger first, then the root.
ChildDispatch(c, r) ==
    LET me    == child[c]
        atSub == r.name \in Buckets
        stop  == atSub /\ ~me.sub[r.name].propagate
        st0   == [rec |-> r, rootFile |-> rootFile,
                  bucketFile |-> IF atSub
                                 THEN [bucketFile EXCEPT ![r.name] =
                                          Lines(@, r, me.sub[r.name].sinks, c)]
                                 ELSE bucketFile,
                  sub |-> me.sub, queues |-> queues, put |-> put,
                  stuck |-> FALSE, raised |-> FALSE]
    IN  IF stop THEN st0 ELSE ChildRun(c, me.root, 1, st0)

\* A child is started (fork copies the parent's logging state, spawn starts
\* from an empty one) and calls get_logger(name, logseg.globals.logger_queue).
ChildStart(c, method) ==
    /\ ~child[c].started
    /\ globalQueue # 0
    /\ child' = [child EXCEPT ![c] =
                   [started |-> TRUE,
                    root |-> GetLoggerRoot(IF method = "fork" THEN rootHandlers ELSE <<>>,
                                           globalQueue, c),
                    q |-> globalQueue,
                    sub |-> IF method = "fork" THEN sub ELSE FreshSub,
                    stuck |-> FALSE]]
    /\ UNCHANGED <<nInit, globalQueue, queues, listener, disp, rootHandlers, stdout, lock,
                   sub, rootFile, bucketFile, main, emitted, put, dispatched,
                   termCalls, termReturns, late>>

    /\ UNCHANGED aux
\* A started child forks a child of its own, which inherits its logging
\* state and calls get_logger(name, logseg.globals.logger_queue).
ChildFork(c, parent) ==
    /\ c # parent
    /\ child[parent].started
    /\ ~child[parent].stuck
    /\ ~child[c].started
    /\ child' = [child EXCEPT ![c] =
                   [started |-> TRUE,
                    root |-> GetLoggerRoot(child[parent].root, child[parent].q, c),
                    q |-> child[parent].q,
                    sub |-> child[parent].sub,
                    stuck |-> FALSE]]
    /\ UNCHANGED <<nInit, globalQueue, queues, listener, disp, rootHandlers, stdout, lock,
                   sub, rootFile, bucketFile, main, emitted, put, dispatched,
                   termCalls, termReturns, late>>
    /\ UNCHANGED aux

\* The same process calls get_logger(name, queue) again (a pool worker
\* running its next task).
ChildGetLogger(c) ==
    /\ child[c].started
    /\ ~child[c].stuck
    /\ child' = [child EXCEPT ![c].root = GetLoggerRoot(@, child[c].q, c)]
    /\ UNCHANGED <<nInit, globalQueue, queues, listener, disp, rootHandlers, stdout, lock,
                   sub, rootFile, bucketFile, main, emitted, put, dispatched,
                   termCalls, termReturns, late>>

    /\ UNCHANGED aux
\* The same process calls get_logger(name, queue) with the queue the
\* originating process holds in logseg.globals.logger_queue at that time
\* (a pool worker handed the queue with each task).
ChildGetLoggerWith(c, q) ==
    /\ child[c].started
    /\ ~child[c].stuck
    /\ q # 0
    /\ q = globalQueue
    /\ child' = [child EXCEPT ![c].root = GetLoggerRoot(@, q, c), ![c].q = q]
    /\ UNCHANGED <<nInit, globalQueue, queues, listener, disp, rootHandlers, stdout, lock,
                   sub, rootFile, bucketFile, main, emitted, put, dispatched,
                   termCalls, termReturns, late>>
    /\ UNCHANGED aux

\* The child logs one record through the logger get_logger returned.
ChildLog(c, tag, f, limit) ==
    /\ child[c].started
    /\ ~child[c].stuck
    /\ Len(emitted) < limit
    /\ emitted' = Append(emitted, [src |-> c, tag |-> tag])
    /\ LET st == ChildDispatch(c, MkRecord(Len(emitted) + 1, c, tag, f))
       IN  /\ rootFile' = st.rootFile
           /\ bucketFile' = st.bucketFile
           /\ queues' = st.queues
           /\ put' = st.put
           /\ child' = [child EXCEPT ![c].sub = st.sub, ![c].stuck = st.stuck]
    /\ UNCHANGED <<nInit, globalQueue, listener, disp, rootHandlers, stdout, lock, sub,
                   main, dispatched, termCalls, termReturns, late>>

    /\ UNCHANGED aux
\* ------------------------------------------------ get_logger, all branches
\* current_process().name
ProcessName(p) == IF p = Main THEN "MainProcess" ELSE "Process"

\* A variant that forwards whenever a queue is given.
GetLoggerForwardsWithQueue(pname, q) == q # 0

\* get_logger's branches: "pass" for a non-originating process without a
\* queue, the forwarding branch for one with a queue, nothing otherwise.
GetLoggerForwards(pname, q) ==
    IF pname # "MainProcess" /\ q = 0 THEN FALSE
    ELSE q # 0 /\ pname # "MainProcess"

\* What get_logger(name, q) called in process p makes of that process's
\* root handlers and sys.stdout.
GetLoggerState(p, q, st) ==
    IF GetLoggerForwards(ProcessName(p), q)
    THEN [root |-> GetLoggerRoot(st.root, q, p), out |-> "redirect"]
    ELSE st

Called(p, q, before, after) ==
    [calls |-> api.calls + 1, proc |-> p, queue |-> q,
     rootBefore |-> before.root, rootAfter |-> after.root,
     outBefore |-> before.out, outAfter |-> after.out]

\* A thread of the originating process calls get_logger(name) or
\* get_logger(name, logseg.globals.logger_queue).
MainGetLogger(q) ==
    /\ api.calls < MaxApiCalls
    /\ q \in {0, globalQueue}
    /\ LET before == [root |-> rootHandlers, out |-> stdout]
           after == GetLoggerState(Main, q, before)
       IN  /\ rootHandlers' = after.root
           /\ stdout' = after.out
           /\ api' = Called(Main, q, before, after)
    /\ UNCHANGED <<nInit, globalQueue, queues, listener, disp, lock, sub, rootFile,
                   bucketFile, child, main, emitted, put, dispatched, termCalls,
                   termReturns, late>>
    /\ UNCHANGED runs

\* A child is started and calls get_logger(name) without a queue.
ChildStartBare(c, method) ==
    /\ api.calls < MaxApiCalls
    /\ ~child[c].started
    /\ LET before == IF method = "fork"
                     THEN [root |-> rootHandlers, out |-> stdout]
                     ELSE [root |-> <<>>, out |-> "real"]
           after == GetLoggerState(c, 0, before)
       IN  /\ child' = [child EXCEPT ![c] =
                          [started |-> TRUE, root |-> after.root, q |-> 0,
                           sub |-> IF method = "fork" THEN sub ELSE FreshSub,
                           stuck |-> FALSE]]
           /\ api' = Called(c, 0, before, after)
    /\ UNCHANGED <<nInit, globalQueue, queues, listener, disp, rootHandlers, stdout, lock,
                   sub, rootFile, bucketFile, main, emitted, put, dispatched,
                   termCalls, termReturns, late>>
    /\ UNCHANGED runs

\* ------------------------------------------------------ minimum severity
\* _get_root_logger's log_level_map.
LogLevelMap == [DEBUG |-> 10, INFO |-> 20, WARNING |-> 30, ERROR |-> 40, CRITICAL |-> 50]
Severities == DOMAIN LogLevelMap

\* What the config file and LOGSEG_LOG_LEVEL can say: nothing, a level, or
\* a word that is no level.
Settings == {"unset", "bogus"} \cup Severities

\* get_config: the default INFO, overridden by the file when one is given
\* and sets log_level, overridden by the environment variable when set.
GetConfig(file, env) ==
    IF env # "unset" THEN env ELSE IF file # "unset" THEN file ELSE "INFO"

\* get_logger calls _get_root_logger() without a config: get_config() then
\* reads no file.
ChildRootLevel(file, env) == GetConfig("unset", env)

\* _get_root_logger: the level root.setLevel is given.
GetRootLevel(setting) ==
    IF setting \in Severities THEN LogLevelMap[setting] ELSE LogLevelMap["INFO"]

LevelStart(file, env, producer, sev) ==
    [pc |-> "init", file |-> file, env |-> env, producer |-> producer, sev |-> sev,
     mainLevel |-> 0, childLevel |-> 0, queued |-> FALSE, written |-> FALSE]

\* logger_init(config_file): _configure_logging_handlers sets the root level.
LevelLoggerInit ==
    /\ levelRun.pc = "init"
    /\ levelRun' = [levelRun EXCEPT
                       !.mainLevel = GetRootLevel(GetConfig(levelRun.file, levelRun.env)),
                       !.pc = IF levelRun.producer = "main" THEN "log" ELSE "child"]
    /\ UNCHANGED besideLevel

\* The child calls get_logger(name, queue), which sets its root level.
LevelChildGetLogger ==
    /\ levelRun.pc = "child"
    /\ levelRun' = [levelRun EXCEPT
                       !.childLevel = GetRootLevel(ChildRootLevel(levelRun.file, levelRun.env)),
                       !.pc = "log"]
    /\ UNCHANGED besideLevel

\* Logger.log: isEnabledFor compares with the effective level, the root's
\* level of the calling process; the originating process's handlers (level
\* NOTSET) write the record, the child's queue handler puts it on the queue.
LevelLog ==
    /\ levelRun.pc = "log"
    /\ LET level == IF levelRun.producer = "main" THEN levelRun.mainLevel
                    ELSE levelRun.childLevel
           enabled == LogLevelMap[levelRun.sev] >= level
       IN  levelRun' =
               IF levelRun.producer = "main"
               THEN [levelRun EXCEPT !.written = enabled, !.pc = "done"]
               ELSE [levelRun EXCEPT !.queued = enabled,
                                     !.pc = IF enabled THEN "listen" ELSE "done"]
    /\ UNCHANGED besideLevel

\* _lt: logger.handle(record) checks no level, and no handler has one.
LevelListen ==
    /\ levelRun.pc = "listen"
    /\ levelRun' = [levelRun EXCEPT !.written = TRUE, !.pc = "done"]
    /\ UNCHANGED besideLevel

\* ------------------------------------------------ RedirectToLogger.write
\* The characters a written text is made of: a letter, a blank, a newline.
Chars == {"x", " ", "\n"}
Whitespace == {" ", "\n"}

RECURSIVE WrittenTexts(_)
WrittenTexts(n) ==
    IF n = 0 THEN {<<>>}
    ELSE LET shorter == WrittenTexts(n - 1)
         IN  shorter \cup {Append(t, c) : t \in shorter, c \in Chars}

\* str.rstrip() and bytes.rstrip(): without the whitespace at the end.
RECURSIVE RStrip(_)
RStrip(s) ==
    IF s = <<>> THEN s
    ELSE IF s[Len(s)] \in Whitespace THEN RStrip(SubSeq(s, 1, Len(s) - 1))
    ELSE s

\* The position of the first newline of s, 0 when it has none.
FirstNewline(s) ==
    IF \E i \in 1..Len(s) : s[i] = "\n"
    THEN CHOOSE i \in 1..Len(s) : s[i] = "\n" /\ \A j \in 1..(i - 1) : s[j] # "\n"
    ELSE 0

\* str.splitlines(): the lines of s without their line ends; a newline at
\* the very end starts no further line.
RECURSIVE SplitLines(_)
SplitLines(s) ==
    IF s = <<>> THEN <<>>
    ELSE IF FirstNewline(s) = 0 THEN <<s>>
    ELSE <<SubSeq(s, 1, FirstNewline(s) - 1)>> \o
         SplitLines(SubSeq(s, FirstNewline(s) + 1, Len(s)))

\* _redirect_stdout_stderr: the level each redirected stream logs at.
StreamLevel(stream) == IF stream = "stdout" THEN "INFO" ELSE "WARNING"

WriteStart(text, stream) ==
    [pc |-> "split", text |-> text, stream |-> stream, lines |-> <<>>, records |-> <<>>]

\* write, lines 94-95: message.rstrip().splitlines()
WriteSplit ==
    /\ writeRun.pc = "split"
    /\ writeRun' = [writeRun EXCEPT !.lines = SplitLines(RStrip(writeRun.text)),
                                    !.pc = "log"]
    /\ UNCHANGED besideWrite

\* write, lines 95-97: one pass of the loop logs the line, encoded and
\* stripped at its end; the call returns when no line is left.
WriteLogLine ==
    /\ writeRun.pc = "log"
    /\ writeRun' =
           IF writeRun.lines = <<>> THEN [writeRun EXCEPT !.pc = "done"]
           ELSE [writeRun EXCEPT
                   !.records = Append(@, [level |-> StreamLevel(writeRun.stream),
                                          msg |-> RStrip(Head(writeRun.lines))]),
                   !.lines = Tail(@)]
    /\ UNCHANGED besideWrite

\* --------------------------------------------------- a rotating file sink
\* _add_file_handler builds a logging.handlers.RotatingFileHandler on
\* <dir>/logs.log with maxBytes and backupCount from the configuration.  A
\* log file is the sequence of the lines written to it, each with the
\* number of its write and its length; backups maps the numbers i of the
\* files logs.log.i that exist to their content.
FileSize(f) == IF f = <<>> THEN 0 ELSE LET RECURSIVE Sum(_)
                                           Sum(i) == IF i = 0 THEN 0 ELSE f[i].len + Sum(i - 1)
                                       IN  Sum(Len(f))

\* A line left by an earlier run (pre_purge = false).
StaleLine == [id |-> 0, len |-> 1]

\* os.rename(logs.log.i, logs.log.j) after os.remove(logs.log.j).
Rename(b, i, j) ==
    [k \in (DOMAIN b \ {i}) \cup {j} |-> IF k = j THEN b[i] ELSE b[k]]

\* doRollover's loop: for i in range(backupCount - 1, 0, -1), move
\* logs.log.i to logs.log.(i + 1) when it exists.
RECURSIVE ShiftBackups(_, _)
ShiftBackups(b, i) ==
    IF i <= 0 THEN b
    ELSE ShiftBackups(IF i \in DOMAIN b THEN Rename(b, i, i + 1) ELSE b, i - 1)

\* A variant of shouldRollover that waits until the line passes maxBytes.
ShouldRolloverPast(maxBytes, size, len) == maxBytes > 0 /\ size + len > maxBytes

\* RotatingFileHandler.shouldRollover.
ShouldRollover(maxBytes, size, len) == maxBytes > 0 /\ size + len >= maxBytes

\* RotatingFileHandler.doRollover: with backupCount > 0 the backups move up
\* and logs.log becomes logs.log.1; logs.log is opened again for appending.
DoRollover(files, backupCount) ==
    IF backupCount > 0
    THEN LET shifted == ShiftBackups(files.backups, backupCount - 1)
         IN  [active |-> <<>>,
              backups |-> [k \in DOMAIN shifted \cup {1} |->
                             IF k = 1 THEN files.active ELSE shifted[k]]]
    ELSE files

FileCount(run) == 1 + Cardinality(DOMAIN run.backups)

NoSnap == [count |-> 0]
Snap(before, after) ==
    [count |-> FileCount(after), active |-> after.active,
     one |-> IF 1 \in DOMAIN after.backups THEN after.backups[1] ELSE <<>>,
     hasOne |-> 1 \in DOMAIN after.backups,
     before |-> before.active]

\* The sink right after _add_file_handler created it: logs.log is open, and
\* the directory holds the backups an earlier run left when it was not purged.
RotStart(maxBytes, backupCount, stale) ==
    [pc |-> "open", maxBytes |-> maxBytes, backupCount |-> backupCount,
     stale |-> stale, active |-> <<>>, backups |-> [k \in stale |-> <<StaleLine>>],
     writes |-> 0, firstPast |-> NoSnap, firstReach |-> NoSnap]

\* BaseRotatingHandler.emit for a record whose formatted line has len
\* characters: roll over if shouldRollover says so, then write the line.
\* firstPast and firstReach keep the files as the first write that would
\* take logs.log past, or to, maxBytes left them.
SinkEmit(len) ==
    /\ rotRun.pc = "open"
    /\ rotRun.writes < MaxWrites
    /\ LET size == FileSize(rotRun.active)
           files == [active |-> rotRun.active, backups |-> rotRun.backups]
           rolled == IF ShouldRollover(rotRun.maxBytes, size, len)
                     THEN DoRollover(files, rotRun.backupCount)
                     ELSE files
           line == [id |-> rotRun.writes + 1, len |-> len]
           after == [rotRun EXCEPT !.active = Append(rolled.active, line),
                                   !.backups = rolled.backups,
                                   !.writes = @ + 1]
       IN  rotRun' = [after EXCEPT
                        !.firstPast = IF @ = NoSnap /\ size + len > rotRun.maxBytes
                                      THEN Snap(rotRun, after) ELSE @,
                        !.firstReach = IF @ = NoSnap /\ size + len >= rotRun.maxBytes
                                       THEN Snap(rotRun, after) ELSE @]
    /\ UNCHANGED besideRot

\* ------------------------------------------- one run of the router's emit
\* The record emit is handed: msg is a str (a logging call) or bytes (a line
\* RedirectToLogger.write logged); message is set once a handler ahead of
\* the router has formatted the record (the root file sink, QueueHandler).
\* fault names the statement of emit's try block at which an exception of
\* the given kind is raised, if any.
Faults ==
    {[at |-> "none", kind |-> "none"]} \cup
    [at : {"scan", "create", "dispatch"}, kind : {"Exception", "RecursionError"}]

EmitStart(t, isStr, hasMessage, f) ==
    [pc |-> "scan", orig |-> t, isStr |-> isStr, msg |-> t,
     hasMessage |-> hasMessage,
     message |-> IF hasMessage THEN GetMessage(t, isStr) ELSE NoName,
     folder |-> NoName, nonPropagating |-> {}, sinks |-> {}, lines |-> {},
     fault |-> f, reported |-> FALSE]

\* A variant of the except clauses that reports every exception.
CaughtAll(run) == [run EXCEPT !.pc = "returned", !.reported = TRUE]

\* "except RecursionError: raise / except Exception: self.handleError(record)".
Caught(run) ==
    IF run.fault.kind = "RecursionError"
    THEN [run EXCEPT !.pc = "raised"]
    ELSE [run EXCEPT !.pc = "returned", !.reported = TRUE]

\* emit, lines 157-173: scan record.message, then record.msg; each scan
\* rewrites the text and a name that is not false replaces the folder name.
EmitScan ==
    /\ emitRun.pc = "scan"
    /\ IF emitRun.fault.at = "scan"
       THEN emitRun' = Caught(emitRun)
       ELSE LET r1 == IF emitRun.hasMessage
                      THEN ProcessLogseg(emitRun.message)
                      ELSE [final |-> emitRun.message, name |-> NoName]
                f1 == IF Truthy(r1.name) THEN r1.name ELSE NoName
                r2 == IF emitRun.isStr
                      THEN ProcessLogseg(emitRun.msg)
                      ELSE [final |-> emitRun.msg, name |-> NoName]
                f2 == IF Truthy(r2.name) THEN r2.name ELSE f1
            IN  emitRun' = [emitRun EXCEPT !.message = r1.final, !.msg = r2.final,
                                           !.folder = f2,
                                           !.pc = IF Truthy(f2) THEN "create" ELSE "returned"]
    /\ UNCHANGED besideEmit

\* emit, lines 175-185: the bucket's logger stops propagating and gets its
\* file sink (none is there at the start of the run).
EmitAddSink ==
    /\ emitRun.pc = "create"
    /\ LET marked == [emitRun EXCEPT !.nonPropagating = @ \cup {emitRun.folder}]
       IN  IF emitRun.fault.at = "create"
           THEN emitRun' = Caught(marked)
           ELSE emitRun' = [marked EXCEPT !.sinks = @ \cup {emitRun.folder},
                                          !.pc = "dispatch"]
    /\ UNCHANGED besideEmit

\* emit, line 186: logger.handle(record); the bucket's sink formats the
\* record again, so it persists str(record.msg).
EmitDispatch ==
    /\ emitRun.pc = "dispatch"
    /\ IF emitRun.fault.at = "dispatch"
       THEN emitRun' = Caught(emitRun)
       ELSE emitRun' = [emitRun EXCEPT
                          !.lines = @ \cup {[bucket |-> emitRun.folder,
                                             text |-> GetMessage(emitRun.msg, emitRun.isStr)]},
                          !.pc = "returned"]
    /\ UNCHANGED besideEmit

\* --------------------------------------------------------- specifications
Handle(d) ==
    \/ HandleFile(d)
    \/ RouterEmit(d)
    \/ RouterCheck(d)
    \/ RouterCreate(d)
    \/ RouterHandle(d)

\* Spec: one funnel from logger_init() to terminate_logger(), fed by two
\* child processes.
Next ==
    \/ LoggerInit(1)
    \/ TerminatePut(1, 1)
    \/ TerminateJoin
    \/ TerminateRemove
    \/ \E q \in Funnels : LtGet(q)
    \/ \E d \in Listeners : Handle(d)
    \/ \E c \in Children, method \in {"fork", "spawn"} : ChildStart(c, method)
    \/ \E c \in Children : ChildGetLogger(c)
    \/ \E c \in Children, tag \in Tags : ChildLog(c, tag, FALSE, MaxRecs)

Spec == Init /\ [][Next]_vars

\* SpecRoute: one funnel, two producer threads of the originating process
\* logging directly and one child process forwarding through the queue.
RouteChildren == {<<"child", 2>>}

NextRoute ==
    \/ LoggerInit(1)
    \/ TerminatePut(1, 1)
    \/ TerminateJoin
    \/ TerminateRemove
    \/ \E t \in Threads, tag \in Tags : ThreadLog(t, tag, FALSE, MaxRouted)
    \/ \E q \in Funnels : LtGet(q)
    \/ \E d \in Dispatchers : Handle(d) \/ DispatchDone(d)
    \/ \E c \in RouteChildren, method \in {"fork", "spawn"} : ChildStart(c, method)
    \/ \E c \in RouteChildren : ChildGetLogger(c)
    \/ \E c \in RouteChildren, tag \in Tags : ChildLog(c, tag, FALSE, MaxRouted)

SpecRoute == Init /\ [][NextRoute]_vars

\* SpecLife: any sequence of logger_init() and terminate_logger() calls, one
\* child process feeding the queue, and records whose handling raises.
LifeChildren == {<<"child", 1>>}

NextLife ==
    \/ LoggerInit(MaxInit)
    \/ \E m \in Funnels : TerminatePut(m, MaxTerm)
    \/ TerminateJoin
    \/ TerminateRemove
    \/ \E q \in Funnels : LtGet(q)
    \/ \E d \in Dispatchers : Handle(d) \/ DispatchDone(d) \/ HandleConsole(d) \/ RouterRaise(d)
    \/ \E c \in LifeChildren, method \in {"fork", "spawn"} : ChildStart(c, method)
    \/ \E c \in LifeChildren : ChildGetLogger(c)
    \/ \E c \in LifeChildren, tag \in Tags, f \in BOOLEAN : ChildLog(c, tag, f, MaxLifeRecs)

SpecLife == Init /\ [][NextLife]_vars

\* SpecRace: any sequence of logger_init() and terminate_logger() calls while
\* two producer threads of the originating process log directly.
NextRace ==
    \/ LoggerInit(MaxInit)
    \/ \E m \in Funnels : TerminatePut(m, 1)
    \/ TerminateJoin
    \/ TerminateRemove
    \/ \E t \in Threads, tag \in Tags : ThreadLog(t, tag, FALSE, MaxRaceRecs)
    \/ \E q \in Funnels : LtGet(q)
    \/ \E d \in Threads : Handle(d) \/ DispatchDone(d) \/ HandleConsole(d)

SpecRace == Init /\ [][NextRace]_vars

\* SpecNest: one funnel, a child process of the originating process and a
\* child process forked by that child, both forwarding through the queue.
NestChild == <<"child", 1>>
NestGrandchild == <<"child", 2>>

NextNest ==
    \/ LoggerInit(1)
    \/ TerminatePut(1, 1)
    \/ TerminateJoin
    \/ TerminateRemove
    \/ \E q \in Funnels : LtGet(q)
    \/ \E d \in Listeners : Handle(d)
    \/ \E method \in {"fork", "spawn"} : ChildStart(NestChild, method)
    \/ ChildFork(NestGrandchild, NestChild)
    \/ \E c \in Children : ChildGetLogger(c)
    \/ \E c \in Children, tag \in Tags : ChildLog(c, tag, FALSE, MaxNestRecs)

SpecNest == Init /\ [][NextNest]_vars

\* SpecApi: one funnel, get_logger called in the originating process with
\* and without the queue, one child that calls it without a queue and one
\* that forwards through the queue.
BareChild == <<"child", 1>>
QueueChild == <<"child", 2>>

NextApi ==
    \/ LoggerInit(1)
    \/ TerminatePut(1, 1)
    \/ TerminateJoin
    \/ TerminateRemove
    \/ \E q \in {0} \cup Funnels : MainGetLogger(q)
    \/ \E method \in {"fork", "spawn"} : ChildStartBare(BareChild, method)
    \/ \E method \in {"fork", "spawn"} : ChildStart(QueueChild, method)
    \/ \E c \in Children, tag \in Tags : ChildLog(c, tag, FALSE, MaxApiRecs)
    \/ \E q \in Funnels : LtGet(q)
    \/ \E d \in Listeners : Handle(d)

SpecApi == Init /\ [][NextApi]_vars

\* SpecTz: one logger_init() call with any timezone identifier, two producer
\* threads of the originating process, and terminate_logger() on the manager
\* when the call returned one.
NextTz ==
    \/ \E tz \in Timezones : LoggerInitTz(tz, 1)
    \/ listener[1] # "unborn" /\ TerminatePut(1, 1)
    \/ TerminateJoin
    \/ TerminateRemove
    \/ \E t \in Threads, tag \in Tags : ThreadLog(t, tag, FALSE, MaxTzRecs)
    \/ \E q \in Funnels : LtGet(q)
    \/ \E d \in Threads : Handle(d) \/ DispatchDone(d)

SpecTz == Init /\ [][NextTz]_vars

\* SpecQueues: any sequence of logger_init() and terminate_logger() calls and
\* one child process that is handed the current queue with every
\* get_logger call.
QueuesChild == <<"child", 1>>

NextQueues ==
    \/ LoggerInit(MaxInit)
    \/ \E m \in Funnels : TerminatePut(m, 1)
    \/ TerminateJoin
    \/ TerminateRemove
    \/ \E q \in Funnels : LtGet(q)
    \/ \E d \in Listeners : Handle(d) \/ DispatchDone(d) \/ HandleConsole(d)
    \/ \E method \in {"fork", "spawn"} : ChildStart(QueuesChild, method)
    \/ \E q \in Funnels : ChildGetLoggerWith(QueuesChild, q)
    \/ \E tag \in Tags : ChildLog(QueuesChild, tag, FALSE, MaxQueuesRecs)

SpecQueues == Init /\ [][NextQueues]_vars

\* SpecEmit: the router's emit run on one record, for every text, either
\* kind of msg, with and without a formatted message.
\* Nothing but the emit run is under way.
EmitAlone == api = NoCall /\ levelRun = NoRun /\ writeRun = NoRun /\ rotRun = NoRun

InitEmit ==
    /\ FunnelInit
    /\ EmitAlone
    /\ emitRun \in {EmitStart(t, isStr, hasMessage, [at |-> "none", kind |-> "none"]) :
                       t \in Texts, isStr \in BOOLEAN, hasMessage \in BOOLEAN}

NextEmit ==
    \/ EmitScan
    \/ EmitAddSink
    \/ EmitDispatch

SpecEmit == InitEmit /\ [][NextEmit]_vars

\* SpecFault: the same run with an exception raised inside emit's try block.
InitFault ==
    /\ FunnelInit
    /\ EmitAlone
    /\ emitRun \in {EmitStart(t, isStr, hasMessage, f) :
                       t \in Texts, isStr \in BOOLEAN, hasMessage \in BOOLEAN, f \in Faults}

SpecFault == InitFault /\ [][NextEmit]_vars

\* SpecLevel: one record of every severity, logged in the originating
\* process or in a child, under every setting of the config file and of
\* LOGSEG_LOG_LEVEL.
InitLevel ==
    /\ FunnelInit
    /\ api = NoCall
    /\ emitRun = NoRun
    /\ writeRun = NoRun
    /\ rotRun = NoRun
    /\ levelRun \in {LevelStart(file, env, producer, sev) :
                        file \in Settings, env \in Settings,
                        producer \in {"main", "child"}, sev \in Severities}

NextLevel ==
    \/ LevelLoggerInit
    \/ LevelChildGetLogger
    \/ LevelLog
    \/ LevelListen

SpecLevel == InitLevel /\ [][NextLevel]_vars

\* SpecWrite: one call of write on either redirected stream, for every text.
InitWrite ==
    /\ FunnelInit
    /\ api = NoCall
    /\ emitRun = NoRun
    /\ levelRun = NoRun
    /\ rotRun = NoRun
    /\ writeRun \in {WriteStart(text, stream) :
                        text \in WrittenTexts(MaxChars), stream \in {"stdout", "stderr"}}

NextWrite ==
    \/ WriteSplit
    \/ WriteLogLine

SpecWrite == InitWrite /\ [][NextWrite]_vars

\* SpecRot: one sink with every threshold and backup count, in a purged
\* directory or one with backups of an earlier run, and every sequence of
\* line lengths written through it.
InitRot ==
    /\ FunnelInit
    /\ api = NoCall
    /\ emitRun = NoRun
    /\ levelRun = NoRun
    /\ writeRun = NoRun
    /\ rotRun \in {RotStart(t, b, stale) :
                      t \in 0..MaxBytes, b \in 0..MaxBackups,
                      stale \in SUBSET (1..(MaxBackups + 1))}

NextRot == \E len \in 1..MaxLineLen : SinkEmit(len)

SpecRot == InitRot /\ [][NextRot]_vars

TypeOK ==
    /\ nInit \in 0..MaxInit
    /\ globalQueue \in 0..MaxInit
    /\ \A q \in Funnels : listener[q] \in {"unborn", "alive", "exited", "dead"}
    /\ \A d \in Dispatchers : disp[d].pc \in {"idle", "root", "check", "create", "handle", "stuck"}
    /\ stdout \in {"real", "redirect"}
    /\ main.pc \in {"idle", "joining", "removing"}

\* ----------------------------------------------------------------- claims
Range(s) == {s[i] : i \in 1..Len(s)}

\* The position at which record id was put on queue q.
PutPos(q, id) == CHOOSE i \in 1..Len(put[q]) : put[q][i].id = id

\* The records put on queue q ahead of the first sentinel, in order.
RECURSIVE UpToNone(_)
UpToNone(s) ==
    IF s = <<>> \/ Head(s) = None THEN <<>> ELSE <<Head(s)>> \o UpToNone(Tail(s))

AheadIn(s) == {r.id : r \in Range(UpToNone(s))}

AheadOfSentinel(q) == AheadIn(put[q])

\* terminate_logger() returns in this step.
TerminateReturns == main.pc = "removing" /\ main'.pc = "idle"

\* C1: whatever a producer puts on the queue, the listener dispatches in
\* the order that producer put it, however other producers interleave.
PerProducerOrder ==
    \A q \in Funnels :
        \A i, j \in 1..Len(dispatched[q]) :
            LET a == dispatched[q][i]
                b == dispatched[q][j]
            IN  (i < j /\ emitted[a].src = emitted[b].src) => PutPos(q, a) < PutPos(q, b)

\* C1 witness: the listener has dispatched two records of one producer with
\* a record of another producer between them.
InterleavedDispatch ==
    \E q \in Funnels :
        \E i, j, k \in 1..Len(dispatched[q]) :
            /\ i < j /\ j < k
            /\ emitted[dispatched[q][i]].src = emitted[dispatched[q][k]].src
            /\ emitted[dispatched[q][i]].src # emitted[dispatched[q][j]].src

AtMostOneSink ==
    \A b \in Buckets :
        /\ sub[b].sinks <= 1
        /\ \A c \in Children : child[c].sub[b].sinks <= 1

\* C4: the listener dispatches no record twice, and once it has taken the
\* sentinel it has dispatched every record put ahead of it.
ExactlyOnce ==
    \A q \in Funnels :
        /\ \A i, j \in 1..Len(dispatched[q]) : dispatched[q][i] = dispatched[q][j] => i = j
        /\ Range(dispatched[q]) \subseteq AheadOfSentinel(q)
        /\ listener[q] = "exited" => Range(dispatched[q]) = AheadOfSentinel(q)

\* C4 witness: the listener has left on the sentinel after dispatching
\* records of both producers.
DrainedBothProducers ==
    /\ listener[1] = "exited"
    /\ \E i, j \in 1..Len(dispatched[1]) :
           emitted[dispatched[1][i]].src # emitted[dispatched[1][j]].src

\* C5: a listener ends only by taking the sentinel, never because handling
\* a record raised.
ListenerSurvivesFault == \A q \in Funnels : listener[q] # "dead"

\* C6: while a listener is alive, no step replaces the global queue, starts
\* another listener or adds handlers to the root logger.
Alive == {q \in Funnels : listener[q] = "alive"}

SecondInitRefused ==
    [][Alive # {} =>
         /\ globalQueue' = globalQueue
         /\ Alive' \subseteq Alive
         /\ Len(rootHandlers') <= Len(rootHandlers)]_vars

\* C7: terminate_logger() returns normally at most once per LoggerManager.
TerminateOnce == \A m \in Funnels : termReturns[m] <= 1

\* C8: when terminate_logger() returns the root logger has no handlers.
NoRootHandlersAtReturn == [][TerminateReturns => rootHandlers' = <<>>]_vars

\* Everything has come to rest after terminate_logger().
Final ==
    /\ termReturns[1] >= 1
    /\ \A d \in Dispatchers : disp[d].pc = "idle"

\* A record whose direct logging call returned before terminate_logger()
\* was called, or that was put on the queue ahead of the sentinel.
Delivered(id) ==
    \/ emitted[id].src \in Threads /\ id \notin late
    \/ id \in AheadOfSentinel(1)

\* C9: after terminate_logger() the file of bucket b holds one line for each
\* delivered record tagged b and none for any other record.
BucketFileExact ==
    Final =>
        \A b \in Buckets : \A id \in 1..Len(emitted) :
            /\ (emitted[id].tag = b /\ Delivered(id)) => Count(bucketFile[b], id) = 1
            /\ emitted[id].tag # b => Count(bucketFile[b], id) = 0

InRouter(d) == disp[d].pc \in {"check", "create", "handle"}

RootFileExact ==
    Final =>
        \A id \in 1..Len(emitted) :
            /\ Delivered(id) => Count(rootFile, id) = 1
            /\ Count(rootFile, id) <= 1

\* The text of the record as it would be persisted untouched, its tags, the
\* name its first tag gives, and whether emit scans any of its text.
EmitText == GetMessage(emitRun.orig, emitRun.isStr)
EmitTags == FindAll(EmitText, 1)
FirstName == SegName(EmitText, EmitTags[1])
Scanned == emitRun.hasMessage \/ emitRun.isStr
EmitOver == emitRun.pc \in {"returned", "raised"}

\* C12: the message persisted in the bucket file is the original message
\* without its tags, every other character unchanged and in order, and holds
\* no tag.
BucketLineWithoutTag ==
    emitRun.pc = "returned" =>
        \A ln \in emitRun.lines :
            /\ ln.text = Sub(EmitText, 1)
            /\ FindAll(ln.text, 1) = <<>>

\* C13 as stated: a record with several tags is dispatched to exactly one
\* bucket, the one its first tag names, and only that bucket gets a sink.
SeveralTagsOneBucket ==
    (emitRun.pc = "returned" /\ Len(EmitTags) >= 2) =>
        /\ {ln.bucket : ln \in emitRun.lines} = {FirstName}
        /\ emitRun.sinks = {FirstName}

\* C13 amended: one run of emit on a record with several tags dispatches it
\* to the bucket its first tag names when emit scans the text and that name
\* is not empty, and to no bucket otherwise; no other bucket gets a sink.
FirstTagDecides ==
    (emitRun.pc = "returned" /\ Len(EmitTags) >= 2) =>
        IF Scanned /\ FirstName # <<>>
        THEN /\ {ln.bucket : ln \in emitRun.lines} = {FirstName}
             /\ emitRun.sinks = {FirstName}
        ELSE /\ emitRun.lines = {}
             /\ emitRun.sinks = {}

\* C13 witness: a record with tags for two buckets was dispatched to the
\* first one.
RoutedByFirstOfTwo ==
    /\ emitRun.pc = "returned"
    /\ Len(EmitTags) >= 2
    /\ \E i \in 2..Len(EmitTags) :
           SegName(EmitText, EmitTags[i]) \notin {FirstName, <<>>}
    /\ \E ln \in emitRun.lines : ln.bucket = FirstName

\* C14 as stated: a record whose tag gives an empty bucket name is handled
\* like an untagged one: nothing marked, created or dispatched, and the
\* message left as it was.
EmptyTagLeftAlone ==
    (emitRun.pc = "returned" /\ EmitTags # <<>> /\ FirstName = <<>>) =>
        /\ emitRun.nonPropagating = {}
        /\ emitRun.sinks = {}
        /\ emitRun.lines = {}
        /\ emitRun.msg = emitRun.orig

\* C14 amended: such a record is not routed (nothing marked, created or
\* dispatched), but a str message has lost its tags.
EmptyTagNotRouted ==
    (emitRun.pc = "returned" /\ EmitTags # <<>> /\ FirstName = <<>>) =>
        /\ emitRun.nonPropagating = {}
        /\ emitRun.sinks = {}
        /\ emitRun.lines = {}
        /\ emitRun.msg = IF emitRun.isStr THEN Sub(emitRun.orig, 1) ELSE emitRun.orig

\* C14 witness: emit returned on a str message whose first tag is LOGSEG()
\* and the message is no longer the original.
EmptyTagStripped ==
    /\ emitRun.pc = "returned"
    /\ EmitTags # <<>>
    /\ FirstName = <<>>
    /\ emitRun.isStr
    /\ emitRun.msg # emitRun.orig

\* C15: an exception raised inside emit reaches the caller exactly when it
\* is a RecursionError; any other one is reported through handleError and
\* emit returns.
FaultReached ==
    \/ emitRun.fault.at = "scan"
    \/ emitRun.fault.at \in {"create", "dispatch"} /\ Truthy(emitRun.folder)

OnlyRecursionErrorEscapes ==
    EmitOver =>
        /\ emitRun.pc = "raised" <=> (FaultReached /\ emitRun.fault.kind = "RecursionError")
        /\ emitRun.reported <=> (FaultReached /\ emitRun.fault.kind = "Exception")

\* C15 witness: an exception raised while the bucket's sink was created was
\* reported and emit returned.
SinkFaultReported ==
    /\ emitRun.pc = "returned"
    /\ emitRun.fault = [at |-> "create", kind |-> "Exception"]
    /\ emitRun.reported

\* C16: in every started child process the root logger holds exactly one
\* queue handler whenever a get_logger(name, queue) call has returned, and
\* every record a child logged has been put on a queue exactly once.
QueueHandlersOf(c) == {i \in 1..Len(child[c].root) : child[c].root[i].kind = "queue"}
PutsOf(id) == {<<q, i>> \in Funnels \X (1..MaxNestRecs * 2) : i <= Len(put[q]) /\ put[q][i].id = id}

OneQueueHandlerPutOnce ==
    /\ \A c \in Children : child[c].started => Cardinality(QueueHandlersOf(c)) = 1
    /\ \A id \in 1..Len(emitted) :
           emitted[id].src \in Children => Cardinality(PutsOf(id)) = 1

\* C17: a get_logger call in the originating process (with or without a
\* queue) or in another process without a queue installs no handler, attaches
\* no queue handler, and leaves the root handler list, the loggers and the
\* standard stream of the calling process as they were.
OutsideForwarding ==
    /\ api'.calls = api.calls + 1
    /\ api'.proc = Main \/ api'.queue = 0

GetLoggerFrame ==
    [][OutsideForwarding =>
          /\ api'.rootAfter = api'.rootBefore
          /\ api'.outAfter = api'.outBefore
          /\ rootHandlers' = rootHandlers
          /\ stdout' = stdout
          /\ sub' = sub
          /\ \A c \in Children :
                 /\ child'[c].sub = child[c].sub \/ ~child[c].started
                 /\ child'[c].root = child[c].root \/ c = api'.proc]_vars

\* C17 witness: the originating process, with handlers on its root logger,
\* has called get_logger with the queue of the running funnel.
MainCalledWithQueue ==
    /\ api.calls > 0
    /\ api.proc = Main
    /\ api.queue # 0
    /\ Len(api.rootBefore) = 3

\* C18: with the minimum severity logger_init resolved from the config file
\* and the environment, a record is written to a sink exactly when its
\* severity is at least that level, whether it was logged in the originating
\* process or in a child process and forwarded through the queue.
WrittenIffAtLeastLevel ==
    levelRun.pc = "done" =>
        (levelRun.written <=> LogLevelMap[levelRun.sev] >= levelRun.mainLevel)

\* C19: write has logged exactly one record for every non-empty line of the
\* text and none for an empty line, each at INFO for stdout and at WARNING
\* for stderr.  A line of blanks only may count as empty or not: the records
\* are at least the lines holding a character other than whitespace and at
\* most the lines holding any character.
NonEmptyLines(text) == SelectSeq(SplitLines(text), LAMBDA l : l # <<>>)
NonBlankLines(text) == SelectSeq(SplitLines(text), LAMBDA l : RStrip(l) # <<>>)

OneRecordPerNonEmptyLine ==
    writeRun.pc = "done" =>
        /\ Len(NonBlankLines(writeRun.text)) <= Len(writeRun.records)
        /\ Len(writeRun.records) <= Len(NonEmptyLines(writeRun.text))
        /\ \A i \in 1..Len(writeRun.records) :
               writeRun.records[i].level =
                   (IF writeRun.stream = "stdout" THEN "INFO" ELSE "WARNING")

\* C20 as stated: with threshold T and backup count B the directory of a
\* sink holds at most B + 1 log files after any writes, and the first write
\* that would take logs.log past T rotated first and left exactly two files,
\* the new line alone in logs.log and the earlier content in logs.log.1.
RotatedLeavingTwo(snap) ==
    snap # NoSnap =>
        /\ snap.count = 2
        /\ Len(snap.active) = 1
        /\ snap.hasOne
        /\ snap.one = snap.before

RotationAsStated ==
    /\ FileCount(rotRun) <= rotRun.backupCount + 1
    /\ RotatedLeavingTwo(rotRun.firstPast)

\* C20 amended: in a directory that held no log files when the sink was
\* created, at most B + 1 log files exist after any writes; and when T > 0
\* and B >= 1, the first write that would take logs.log to T or past it
\* rotated first and left exactly two files, the new line alone in logs.log
\* and the earlier content in logs.log.1.
RotationFromEmptyDirectory ==
    rotRun.stale = {} =>
        /\ FileCount(rotRun) <= rotRun.backupCount + 1
        /\ (rotRun.maxBytes > 0 /\ rotRun.backupCount >= 1) =>
               RotatedLeavingTwo(rotRun.firstReach)

\* C20 witness: a sink with backups in a purged directory rotated written
\* content out on the first write reaching its threshold.
RotatedOutEarlierContent ==
    /\ rotRun.stale = {}
    /\ rotRun.maxBytes > 0
    /\ rotRun.backupCount >= 1
    /\ rotRun.firstReach # NoSnap
    /\ rotRun.firstReach.before # <<>>
    /\ rotRun.firstReach.one = rotRun.firstReach.before

\* C21: every logger_init() call, whatever timezone identifier the
\* configuration holds, completes: when it has stored its queue, the listener
\* of that queue is alive and the three handlers are on the root logger.
InitReachesRunning ==
    [][globalQueue' # globalQueue =>
          /\ listener'[globalQueue'] = "alive"
          /\ Len(rootHandlers') = Len(rootHandlers) + 3]_vars

\* C22: after a logger_init() call that is the first one or follows only
\* completed logger_init()/terminate_logger() cycles, the root logger holds
\* exactly the file sink, the router and the console handler of that call,
\* in that order.
InitAfterCompletedCycles ==
    /\ nInit' = nInit + 1
    /\ \A m \in 1..nInit : termReturns[m] >= 1

FreshHandlersAfterInit ==
    [][InitAfterCompletedCycles =>
          /\ Len(rootHandlers') = 3
          /\ <<rootHandlers'[1].kind, rootHandlers'[2].kind, rootHandlers'[3].kind>>
                 = <<"file", "router", "console">>
          /\ \A i \in 1..3 : rootHandlers'[i].id = nInit']_vars

\* C23: in a child process in which get_logger(name, queue) has returned,
\* the root logger holds no handler but queue handlers, and no line of any
\* log file was written by a child process.
WrittenBy(f) == {ln.by : ln \in DOMAIN f}

ChildOnlyForwards ==
    /\ \A c \in Children : child[c].started =>
           \A i \in 1..Len(child[c].root) : child[c].root[i].kind = "queue"
    /\ WrittenBy(rootFile) \cap Children = {}
    /\ \A b \in Buckets : WrittenBy(bucketFile[b]) \cap Children = {}

\* C24 as stated: while a listener is alive, no producer thread executes a
\* write on a bucket sink; only the listener thread does.
BucketWriteBy(d) ==
    /\ disp[d].pc = "handle"
    /\ disp'[d].pc # "handle"
    /\ bucketFile' # bucketFile

OnlyListenerWritesBuckets ==
    [][Alive # {} => \A t \in Threads : ~BucketWriteBy(t)]_vars

\* C24 amended: a bucket sink is written by the thread that handles the
\* record, the listener or a producer thread of the originating process, and
\* a thread inside a router's dispatch to a bucket holds that router's
\* handler lock, so no two threads are inside the same router's dispatch at
\* once.
RoutedWriteUnderRouterLock ==
    \A d \in Dispatchers : InRouter(d) => \E k \in Funnels : lock[k] = d

\* C24 witness: a producer thread is about to write a bucket sink while the
\* listener stands at the router with a tagged record.
ProducerWritesListenerWaits ==
    \E t \in Threads :
        /\ disp[t].pc = "handle"
        /\ listener[1] = "alive"
        /\ AtRoot(Listener(1))
        /\ Current(Listener(1)).kind = "router"
        /\ disp[Listener(1)].rec.msg # NoTag

\* C25: terminate_logger() called on a manager puts its sentinel on the
\* queue that this manager's listener reads, whatever logger_init() calls
\* were made before.
TerminateCalled == main.pc = "idle" /\ main'.pc = "joining"

SentinelOnOwnQueue ==
    [][TerminateCalled => put'[main'.m] = Append(put[main'.m], None)]_vars

\* C26: whatever logger_init() and terminate_logger() calls were made, no
\* console handler on the root logger is bound to a RedirectToLogger, and
\* no logging call is caught in handling its record again and again.
ConsoleOnRealStream ==
    /\ \A i \in 1..Len(rootHandlers) :
           rootHandlers[i].kind = "console" => rootHandlers[i].stream = "real"
    /\ \A d \in Dispatchers : disp[d].pc # "stuck"

\* C27: whatever records were routed to buckets before, an untagged record
\* is never written to a bucket file, through a logger of whatever name, and
\* once everything has come to rest it has its line in the root file.
UntaggedOnlyInRoot ==
    \A id \in 1..Len(emitted) :
        emitted[id].tag = NoTag =>
            /\ \A b \in Buckets : Count(bucketFile[b], id) = 0
            /\ (Final /\ Delivered(id)) => Count(rootFile, id) = 1

\* C28: in a child process in which get_logger(name, q) has returned, the
\* root logger holds a queue handler and every queue handler on it forwards
\* to q, the queue of the most recent call.
ForwardsToLatestQueue ==
    \A c \in Children : child[c].started =>
        /\ \E i \in 1..Len(child[c].root) : child[c].root[i].kind = "queue"
        /\ \A i \in 1..Len(child[c].root) :
               child[c].root[i].kind = "queue" => child[c].root[i].id = child[c].q

====
